---- MODULE Spec2Model ----
(***************************************************************************)
(* Model of PyInstaller/utils/osx.py, fix_exe_for_code_signing(filename):  *)
(* the Mach-O header patch that makes an appended .pkg archive part of the *)
(* string table of the last architecture slice.                            *)
(*                                                                         *)
(* The file on disk is modelled by its decoded structure (fat header,      *)
(* FatArch table, one load-command list per slice), its byte length and    *)
(* the bytes appended after the linker's output.  One invocation is split  *)
(* at its two write passes (lines 148-149 and 156-174).                    *)
(***************************************************************************)
EXTENDS Integers, Sequences, FiniteSets

VARIABLES
    file,       \* decoded on-disk content: [fat, magic, archs, slices]
    file_size,  \* os.path.getsize(filename)
    payload,    \* bytes appended behind the linker's output
    pc,         \* position of the invocation
    locals,     \* file_size, executable, delta of the running invocation
    err,        \* exception that ended the last invocation, or "none"
    passes,     \* write passes completed by the running / last invocation
    pre,        \* file, file_size, payload when the invocation started
    rerun       \* the invocation started right after a successful one

vars == <<file, file_size, payload, pc, locals, err, passes, pre, rerun>>

----------------------------------------------------------------------------
(* Bounds of the model *)

MaxCmds == 3      \* load commands on the last slice
MaxArchs == 2     \* FatArch entries of a fat binary
MaxAppend == 2    \* bytes appended in one step / beyond the declared end

----------------------------------------------------------------------------
(* macholib names used by the function *)

LC_SEGMENT == "LC_SEGMENT"
LC_SEGMENT_64 == "LC_SEGMENT_64"
LC_SYMTAB == "LC_SYMTAB"
LC_CODE_SIGNATURE == "LC_CODE_SIGNATURE"
FAT_MAGIC == "FAT_MAGIC"
FAT_MAGIC_64 == "FAT_MAGIC_64"
MH_MAGIC_64 == "MH_MAGIC_64"
LINKEDIT_NAME == "__LINKEDIT"
TEXT_NAME == "__TEXT"

Last(s) == s[Len(s)]

Min(S) == CHOOSE x \in S : \A y \in S : x <= y

----------------------------------------------------------------------------
(* Load commands: cmd[0].cmd is the kind, the other fields are cmd[1]'s.   *)

Segment64(name, off, size) ==
    [cmd |-> LC_SEGMENT_64, segname |-> name, fileoff |-> off,
     filesize |-> size, vmsize |-> 16, stroff |-> 0, strsize |-> 0]

Segment32(name, off, size) ==
    [cmd |-> LC_SEGMENT, segname |-> name, fileoff |-> off,
     filesize |-> size, vmsize |-> 16, stroff |-> 0, strsize |-> 0]

Symtab(off, size) ==
    [cmd |-> LC_SYMTAB, segname |-> "", fileoff |-> 0,
     filesize |-> 0, vmsize |-> 0, stroff |-> off, strsize |-> size]

CodeSignature ==
    [cmd |-> LC_CODE_SIGNATURE, segname |-> "", fileoff |-> 0,
     filesize |-> 0, vmsize |-> 0, stroff |-> 0, strsize |-> 0]

\* The load commands a slice of the input file is built from.
CmdSet ==
    { Segment64(LINKEDIT_NAME, 4, 2), Segment64(LINKEDIT_NAME, 4, 3),
      Symtab(5, 1),
      Segment64(TEXT_NAME, 0, 4), Segment32(LINKEDIT_NAME, 4, 2),
      CodeSignature }

CommandLists == UNION { [1..n -> CmdSet] : n \in 0..MaxCmds }

\* Slices before the last one: a signed slice at odd positions, a slice
\* with a non-contiguous string table at even ones.
EarlierCommands(i) ==
    IF i % 2 = 1
    THEN << Segment64(LINKEDIT_NAME, 4, 2), Symtab(5, 1), CodeSignature >>
    ELSE << Symtab(5, 1), Segment64(LINKEDIT_NAME, 4, 3) >>

ArchOffset(i) == 2 + 10 * (i - 1)

\* A thin file, or a fat file of n slices whose last FatArch.size is lastSize.
ThinFile(cmds) ==
    [fat |-> FALSE, magic |-> MH_MAGIC_64, archs |-> << >>,
     slices |-> << cmds >>]

FatFile(magic, n, lastSize, cmds) ==
    [fat |-> TRUE, magic |-> magic,
     archs |-> [i \in 1..n |->
                  [offset |-> ArchOffset(i),
                   size |-> IF i = n THEN lastSize ELSE 10]],
     slices |-> [i \in 1..n |-> IF i = n THEN cmds ELSE EarlierCommands(i)]]

InputFiles ==
    { ThinFile(cmds) : cmds \in CommandLists }
    \cup { FatFile(m, n, s, cmds) :
             m \in {FAT_MAGIC, FAT_MAGIC_64}, n \in 1..MaxArchs,
             s \in {6, 7}, cmds \in CommandLists }

\* Offset of the last slice in the file.
BaseOf(f) == IF f.fat THEN Last(f.archs).offset ELSE 0

\* Length of the file relative to the start of its last slice.
FileLengths == 4..(7 + MaxAppend)

NoLocals == [file_size |-> 0, executable |-> << >>, delta |-> 0]

----------------------------------------------------------------------------
(* MachO(filename): one header per slice, header.offset from the FatArch   *)
(* table (zero for a thin binary).                                         *)

MachO(f) ==
    [fat |-> f.fat,
     headers |-> [i \in 1..Len(f.slices) |->
                    [offset |-> IF f.fat THEN f.archs[i].offset ELSE 0,
                     commands |-> f.slices[i]]]]

\* Lines 107-108, 113-115, 119-120: positions of the filtered commands.
SignSec(commands) ==
    { i \in DOMAIN commands : commands[i].cmd = LC_CODE_SIGNATURE }

LinkeditSeg(commands) ==
    { i \in DOMAIN commands : /\ commands[i].cmd = LC_SEGMENT_64
                              /\ commands[i].segname = LINKEDIT_NAME }

SymtabSec(commands) ==
    { i \in DOMAIN commands : commands[i].cmd = LC_SYMTAB }

\* The signature check dropped.
SignatureFound_Never(commands) == FALSE

SignatureFound(commands) == Cardinality(SignSec(commands)) # 0

\* Only a missing segment is refused, a duplicate is not.
LinkeditCountBad_OnlyZero(commands) ==
    Cardinality(LinkeditSeg(commands)) = 0

LinkeditCountBad(commands) == Cardinality(LinkeditSeg(commands)) # 1

SymtabCountBad(commands) == Cardinality(SymtabSec(commands)) # 1

\* The contiguity check dropped.
SanityCheckFails_Never(commands) == FALSE

\* Line 125-126, with linkedit_seg and symtab_sec the [0] entries.
SanityCheckFails(commands) ==
    LET seg == commands[Min(LinkeditSeg(commands))]
        sym == commands[Min(SymtabSec(commands))]
    IN  seg.fileoff + seg.filesize # sym.stroff + sym.strsize

\* The assertion that fails first, in the order of the code.
AssertionError(commands) ==
    IF SignatureFound(commands) THEN "signed"
    ELSE IF LinkeditCountBad(commands) THEN "segment"
    ELSE IF SymtabCountBad(commands) THEN "symtab"
    ELSE IF SanityCheckFails(commands) THEN "layout"
    ELSE "none"

\* The declared size taken without the segment's length.
OldFileSize_NoFilesize(header) ==
    LET seg == header.commands[Min(LinkeditSeg(header.commands))]
    IN  header.offset + seg.fileoff

\* The declared size taken without the slice's offset in the file.
OldFileSize_NoOffset(header) ==
    LET seg == header.commands[Min(LinkeditSeg(header.commands))]
    IN  seg.fileoff + seg.filesize

\* Lines 130-131.
OldFileSize(header) ==
    LET seg == header.commands[Min(LinkeditSeg(header.commands))]
    IN  header.offset + seg.fileoff + seg.filesize

\* Line 132.
Delta(size, header) == size - OldFileSize(header)

\* Only the string table is grown, the segment is forgotten.
PatchCommands_OnlyStrtab(commands, delta) ==
    LET t == Min(SymtabSec(commands))
    IN  [i \in DOMAIN commands |->
           IF i = t THEN [commands[i] EXCEPT !.strsize = @ + delta]
           ELSE commands[i]]

\* Line 140 enabled: the in-memory size grows as well.
PatchCommands_Vmsize(commands, delta) ==
    LET s == Min(LinkeditSeg(commands))
        t == Min(SymtabSec(commands))
    IN  [i \in DOMAIN commands |->
           IF i = t THEN [commands[i] EXCEPT !.strsize = @ + delta]
           ELSE IF i = s THEN [commands[i] EXCEPT !.filesize = @ + delta,
                                                  !.vmsize = @ + delta]
           ELSE commands[i]]

\* Lines 134-136: the two in-place updates of the command entries.
PatchCommands(commands, delta) ==
    LET s == Min(LinkeditSeg(commands))
        t == Min(SymtabSec(commands))
    IN  [i \in DOMAIN commands |->
           IF i = t THEN [commands[i] EXCEPT !.strsize = @ + delta]
           ELSE IF i = s THEN [commands[i] EXCEPT !.filesize = @ + delta]
           ELSE commands[i]]

\* struct.pack of an unsigned field raises struct.error on a negative value.
Packable(c) == c.filesize >= 0 /\ c.strsize >= 0 /\ c.vmsize >= 0

AllPackable(commands) == \A i \in DOMAIN commands : Packable(commands[i])

\* executable.write(fp): the commands are written one after the other over
\* the old ones; the first one that cannot be packed ends the write.
WriteCommands(old, new) ==
    LET bad == { i \in DOMAIN new : ~Packable(new[i]) }
        stop == IF bad = {} THEN Len(new) + 1 ELSE Min(bad)
    IN  [i \in DOMAIN old |-> IF i < stop THEN new[i] ELSE old[i]]

WriteHeaders(slices, executable) ==
    [i \in DOMAIN slices |->
        WriteCommands(slices[i], executable.headers[i].commands)]

\* The fat pass run for every file.
FatPassNeeded_Always(executable) == TRUE

\* Line 153.
FatPassNeeded(executable) == executable.fat

\* The size assigned to every entry instead of the last.
FatRewrite_EveryEntry(archs, size) ==
    [i \in DOMAIN archs |->
        [archs[i] EXCEPT !.size = size - archs[i].offset]]

\* Lines 160-174: the FatArch table read back, last size set, written back.
FatRewrite(archs, size) ==
    [i \in DOMAIN archs |->
        IF i = Len(archs)
        THEN [archs[i] EXCEPT !.size = size - archs[i].offset]
        ELSE archs[i]]

----------------------------------------------------------------------------
(* The state machine *)

Init ==
    /\ \E f \in InputFiles, len \in FileLengths :
          /\ file = f
          /\ file_size = BaseOf(f) + len
    /\ payload = << >>
    /\ pc = "idle"
    /\ locals = NoLocals
    /\ err = "none"
    /\ passes = << >>
    /\ pre = [file |-> file, file_size |-> file_size, payload |-> payload]
    /\ rerun = FALSE

Callable == pc \in {"idle", "done", "failed"}

Snapshot == [file |-> file, file_size |-> file_size, payload |-> payload]

\* Lines 97-126 when an assertion fails: nothing was written.
ValidateFail ==
    /\ Callable
    /\ AssertionError(Last(MachO(file).headers).commands) # "none"
    /\ pc' = "failed"
    /\ err' = AssertionError(Last(MachO(file).headers).commands)
    /\ locals' = [file_size |-> file_size, executable |-> MachO(file),
                  delta |-> 0]
    /\ passes' = << >>
    /\ pre' = Snapshot
    /\ rerun' = (pc = "done")
    /\ UNCHANGED <<file, file_size, payload>>

\* Lines 97-136: the assertions hold, the in-memory model is patched.
Patch ==
    /\ Callable
    /\ AssertionError(Last(MachO(file).headers).commands) = "none"
    /\ LET executable == MachO(file)
           n == Len(executable.headers)
           header == executable.headers[n]
           delta == Delta(file_size, header)
       IN  locals' = [file_size |-> file_size,
                      executable |->
                         [executable EXCEPT !.headers[n].commands =
                             PatchCommands(header.commands, delta)],
                      delta |-> delta]
    /\ pc' = "patched"
    /\ err' = "none"
    /\ passes' = << >>
    /\ pre' = Snapshot
    /\ rerun' = (pc = "done")
    /\ UNCHANGED <<file, file_size, payload>>

\* Lines 148-153: the slice headers are written back.
WriteSlice ==
    /\ pc = "patched"
    /\ AllPackable(Last(locals.executable.headers).commands)
    /\ file' = [file EXCEPT !.slices = WriteHeaders(@, locals.executable)]
    /\ passes' = Append(passes, "slice")
    /\ pc' = IF FatPassNeeded(locals.executable) THEN "slice_written"
             ELSE "done"
    /\ UNCHANGED <<file_size, payload, locals, err, pre, rerun>>

\* Lines 148-149 when a patched size is negative: struct.error in the
\* middle of the write.
WriteSliceFail ==
    /\ pc = "patched"
    /\ ~AllPackable(Last(locals.executable.headers).commands)
    /\ file' = [file EXCEPT !.slices = WriteHeaders(@, locals.executable)]
    /\ pc' = "failed"
    /\ err' = "struct"
    /\ UNCHANGED <<file_size, payload, locals, passes, pre, rerun>>

\* Lines 156-174: the fat header is read, adjusted and written back.
WriteFat ==
    /\ pc = "slice_written"
    /\ file' = [file EXCEPT !.archs = FatRewrite(@, locals.file_size)]
    /\ passes' = Append(passes, "fat")
    /\ pc' = "done"
    /\ UNCHANGED <<file_size, payload, locals, err, pre, rerun>>

\* open(filename, 'rb+') at line 148 or line 156 raises, or the process
\* is killed there.
IOFailure ==
    /\ pc \in {"patched", "slice_written"}
    /\ pc' = "failed"
    /\ err' = "io"
    /\ UNCHANGED <<file, file_size, payload, locals, passes, pre, rerun>>

\* The build appends k more bytes to a patched file (outside the function).
AppendData ==
    /\ pc = "done"
    /\ payload = << >>
    /\ \E k \in 1..MaxAppend :
          /\ file_size' = file_size + k
          /\ payload' = [i \in 1..k |-> 255]
    /\ pc' = "idle"
    /\ UNCHANGED <<file, locals, err, passes, pre, rerun>>

Next ==
    \/ ValidateFail
    \/ Patch
    \/ WriteSlice
    \/ WriteSliceFail
    \/ WriteFat
    \/ IOFailure
    \/ AppendData

Spec == Init /\ [][Next]_vars

----------------------------------------------------------------------------
(* What an invocation started from, read off the file as it was then.      *)

PreCmds == Last(pre.file.slices)

NowCmds == Last(file.slices)

PreBase == IF pre.file.fat THEN Last(pre.file.archs).offset ELSE 0

PreSignatures ==
    { i \in DOMAIN PreCmds : PreCmds[i].cmd = "LC_CODE_SIGNATURE" }

PreLinkedits ==
    { i \in DOMAIN PreCmds : /\ PreCmds[i].cmd = "LC_SEGMENT_64"
                             /\ PreCmds[i].segname = "__LINKEDIT" }

PreSymtabs == { i \in DOMAIN PreCmds : PreCmds[i].cmd = "LC_SYMTAB" }

PreSigned == PreSignatures # {}

PreWellFormed ==
    /\ ~PreSigned
    /\ Cardinality(PreLinkedits) = 1
    /\ Cardinality(PreSymtabs) = 1

SegIdx == CHOOSE i \in PreLinkedits : TRUE

SymIdx == CHOOSE i \in PreSymtabs : TRUE

PreSeg == PreCmds[SegIdx]

PreSym == PreCmds[SymIdx]

NowSeg == NowCmds[SegIdx]

NowSym == NowCmds[SymIdx]

PreContiguous ==
    PreSeg.fileoff + PreSeg.filesize = PreSym.stroff + PreSym.strsize

PreDeclared == PreBase + PreSeg.fileoff + PreSeg.filesize

PreDelta == pre.file_size - PreDeclared

Rejections == {"signed", "segment", "symtab", "layout"}

Ended == pc \in {"done", "failed"}

Running == pc # "idle"

----------------------------------------------------------------------------
(* C1: a successful run on a thin binary whose declared size is smaller    *)
(* than its actual size adds delta = actual - declared to symtab.strsize   *)
(* and to __LINKEDIT.filesize, so that the declared size recomputed from   *)
(* the patched header is the actual file size.                             *)
C1_ThinGrowsByDelta ==
    (pc = "done" /\ ~pre.file.fat /\ PreWellFormed /\ PreDelta > 0) =>
        /\ NowSym.strsize = PreSym.strsize + PreDelta
        /\ NowSeg.filesize = PreSeg.filesize + PreDelta
        /\ NowSeg.fileoff + NowSeg.filesize = file_size

C1_Witness ==
    /\ pc = "done" /\ ~pre.file.fat /\ PreWellFormed
    /\ PreDelta = 2
    /\ NowSym.strsize = PreSym.strsize + 2
    /\ NowSeg.filesize = PreSeg.filesize + 2

(* C2: a successful run on a fat binary changes, in the fat header, only   *)
(* the size of the last FatArch entry, which becomes actual size minus     *)
(* that entry's offset; magic, entry count, every offset and every other   *)
(* size are as before.                                                     *)
C2_FatHeaderFrame ==
    (pc = "done" /\ pre.file.fat) =>
        /\ file.fat
        /\ file.magic = pre.file.magic
        /\ Len(file.archs) = Len(pre.file.archs)
        /\ \A i \in DOMAIN pre.file.archs :
              /\ file.archs[i].offset = pre.file.archs[i].offset
              /\ i < Len(pre.file.archs) =>
                    file.archs[i].size = pre.file.archs[i].size
        /\ Last(file.archs).size =
              pre.file_size - Last(pre.file.archs).offset

C2_Witness ==
    /\ pc = "done" /\ pre.file.fat
    /\ Len(pre.file.archs) >= 2
    /\ Last(file.archs).size # Last(pre.file.archs).size
    /\ file.archs[1] = pre.file.archs[1]

(* C3: an invocation that starts right after a successful one, with no     *)
(* bytes appended or removed in between, passes every assertion, computes  *)
(* delta = 0 and leaves every field of the file as it was.                 *)
C3_RerunIsNoOp ==
    (rerun /\ Running) =>
        /\ err \notin Rejections
        /\ locals.delta = 0
        /\ file = pre.file
        /\ file_size = pre.file_size

C3_Witness ==
    /\ rerun /\ pc = "done" /\ file.fat
    /\ passes = << "slice", "fat" >>
    /\ file = pre.file

(* C4: a code signature on the last slice makes the call fail with         *)
(* nothing written: no write pass runs and the file is as before.          *)
C4_SignedRejected ==
    (Running /\ PreSigned) =>
        /\ pc = "failed"
        /\ err = "signed"
        /\ passes = << >>
        /\ file = pre.file
        /\ file_size = pre.file_size
        /\ payload = pre.payload

C4_Witness ==
    /\ pc = "failed" /\ err = "signed"
    /\ Cardinality(PreLinkedits) = 1
    /\ Cardinality(PreSymtabs) = 1
    /\ PreContiguous
    /\ PreDelta > 0

(* C5: when the actual file size is smaller than the declared size         *)
(* (delta < 0) the call is rejected before any mutation: it ends in        *)
(* failure and the file is as before.                                      *)
C5_NegativeDeltaRejected ==
    (Ended /\ PreWellFormed /\ PreContiguous /\ PreDelta < 0) =>
        /\ pc = "failed"
        /\ file = pre.file

(* C6: when the number of LC_SEGMENT_64 commands named __LINKEDIT, or the  *)
(* number of LC_SYMTAB commands, on the last slice is not exactly one the  *)
(* call fails with nothing written; segments of other names and commands   *)
(* of other kinds do not count, so a count failure is raised only when     *)
(* the respective count is not one.                                        *)
C6_CountsRejected ==
    Running =>
        /\ (Cardinality(PreLinkedits) # 1 \/ Cardinality(PreSymtabs) # 1) =>
              /\ pc = "failed"
              /\ err \in {"signed", "segment", "symtab"}
              /\ passes = << >>
              /\ file = pre.file
        /\ err = "segment" => Cardinality(PreLinkedits) # 1
        /\ err = "symtab" => Cardinality(PreSymtabs) # 1

C6_Witness ==
    /\ pc = "failed" /\ err = "segment"
    /\ Cardinality(PreLinkedits) = 2
    /\ Cardinality(PreSymtabs) = 1
    /\ file = pre.file

(* C7: on an unsigned slice with exactly one __LINKEDIT segment and one    *)
(* LC_SYMTAB, fileoff + filesize # stroff + strsize makes the call fail    *)
(* with nothing written, and equality means no assertion rejects it.       *)
C7_LayoutChecked ==
    (Running /\ PreWellFormed) =>
        /\ ~PreContiguous =>
              /\ pc = "failed"
              /\ err = "layout"
              /\ passes = << >>
              /\ file = pre.file
        /\ PreContiguous => err \notin Rejections

C7_Witness ==
    /\ pc = "failed" /\ err = "layout"
    /\ PreWellFormed /\ ~PreContiguous
    /\ file = pre.file

(* C8: a successful run changes, on the last slice, only symtab.strsize    *)
(* and __LINKEDIT.filesize; vmsize, fileoff, stroff, every other load      *)
(* command, every earlier slice, the appended bytes and the file length    *)
(* are as before.                                                          *)
C8_SliceFrame ==
    (pc = "done" /\ PreWellFormed) =>
        /\ Len(file.slices) = Len(pre.file.slices)
        /\ \A k \in 1..(Len(pre.file.slices) - 1) :
              file.slices[k] = pre.file.slices[k]
        /\ DOMAIN NowCmds = DOMAIN PreCmds
        /\ \A i \in DOMAIN PreCmds :
              /\ NowCmds[i].cmd = PreCmds[i].cmd
              /\ NowCmds[i].segname = PreCmds[i].segname
              /\ NowCmds[i].fileoff = PreCmds[i].fileoff
              /\ NowCmds[i].vmsize = PreCmds[i].vmsize
              /\ NowCmds[i].stroff = PreCmds[i].stroff
              /\ i # SegIdx => NowCmds[i].filesize = PreCmds[i].filesize
              /\ i # SymIdx => NowCmds[i].strsize = PreCmds[i].strsize
        /\ payload = pre.payload
        /\ file_size = pre.file_size

C8_Witness ==
    /\ pc = "done" /\ PreWellFormed
    /\ Len(pre.file.slices) >= 2
    /\ Len(PreCmds) >= 3
    /\ payload # << >>
    /\ NowSeg.filesize # PreSeg.filesize
    /\ NowSeg.vmsize = PreSeg.vmsize

(* C9: an invocation completes at most two write passes, the slice-header  *)
(* pass first and the fat-header pass, only for a fat file, second.  A     *)
(* failure between the two leaves the last slice grown by delta and the    *)
(* FatArch table as it was, and the FatArch table never differs from its   *)
(* old content before the slice-header pass has completed.                 *)
C9_PassOrder ==
    /\ passes \in { << >>, << "slice" >>, << "slice", "fat" >> }
    /\ Len(passes) = 2 => file.fat
    /\ (pc = "failed" /\ err = "io" /\ passes = << "slice" >>) =>
          /\ file.fat
          /\ file.archs = pre.file.archs
          /\ NowSym.strsize = PreSym.strsize + PreDelta
          /\ NowSeg.filesize = PreSeg.filesize + PreDelta
    /\ (Running /\ file.archs # pre.file.archs) =>
          /\ passes = << "slice", "fat" >>
          /\ NowSeg.filesize = PreSeg.filesize + PreDelta

C9_Witness ==
    /\ pc = "failed" /\ err = "io" /\ passes = << "slice" >>
    /\ PreDelta > 0
    /\ NowSeg.filesize = PreSeg.filesize + PreDelta
    /\ Last(file.archs).size # file_size - Last(file.archs).offset

(* C10: after a successful run on a fat binary the fat header and the      *)
(* slice header agree on the end of the last slice, which is the end of    *)
(* the file, and the last FatArch.size has grown by delta whenever it was  *)
(* the slice's declared length before.                                     *)
C10_FatAgreesWithSlice ==
    (pc = "done" /\ pre.file.fat /\ PreWellFormed) =>
        /\ Last(file.archs).offset + Last(file.archs).size = file_size
        /\ Last(file.archs).offset + NowSeg.fileoff + NowSeg.filesize
              = file_size
        /\ Last(pre.file.archs).size = PreSeg.fileoff + PreSeg.filesize =>
              Last(file.archs).size = Last(pre.file.archs).size + PreDelta

C10_Witness ==
    /\ pc = "done" /\ pre.file.fat /\ PreWellFormed
    /\ Len(file.archs) = 2
    /\ Last(pre.file.archs).size = PreSeg.fileoff + PreSeg.filesize
    /\ PreDelta > 0
    /\ Last(file.archs).size = Last(pre.file.archs).size + PreDelta
    /\ file.archs[1] = pre.file.archs[1]

====
